---- MODULE Spec2Model ----
(***************************************************************************)
(* Model of the OCR core of the pharmacy label reader:                     *)
(*   app/ocr/processor.py   OCRProcessor                                   *)
(*   app/ocr/extractors.py  TextExtractor                                  *)
(*   app/models.py          ProductData                                    *)
(*   app/config.py          Settings                                       *)
(*   app/main.py            process_image, process_bulk_images             *)
(*                                                                         *)
(* Text is a sequence of characters; a character is a one-character       *)
(* string.  The two glyphs outside ASCII are written "REG" (U+00AE) and    *)
(* "TM" (U+2122).  A confidence is an integer number of hundredths.        *)
(* An optional value is None, Str(characters) or a date.                   *)
(***************************************************************************)
EXTENDS Integers, Sequences, FiniteSets, TLC

None == [kind |-> "none"]
Str(s) == [kind |-> "str", val |-> s]

(* ------------------------------ bounds -------------------------------- *)
NumCalls == 2        \* concurrent invocations of extract_product_info
MaxSmallDim == 3     \* small image sides 0..MaxSmallDim next to the large ones
MaxFrags == 2        \* Engine A fragments per image in the text-merge runs
MaxPicked == 2       \* label segments picked for a sparse merged text
MaxFiles == 2        \* files of one bulk upload

Calls == 1..NumCalls

(* --------------------------- characters ------------------------------- *)
UpperSeq ==
  <<"A","B","C","D","E","F","G","H","I","J","K","L","M",
    "N","O","P","Q","R","S","T","U","V","W","X","Y","Z">>
LowerSeq ==
  <<"a","b","c","d","e","f","g","h","i","j","k","l","m",
    "n","o","p","q","r","s","t","u","v","w","x","y","z">>
UpperCh == {UpperSeq[i] : i \in 1..26}
LowerCh == {LowerSeq[i] : i \in 1..26}
LetterCh == UpperCh \cup LowerCh
DigitCh == {"0","1","2","3","4","5","6","7","8","9"}
SpaceCh == {" ", "\n", "\t", "\r", "\f"}
WordCh == LetterCh \cup DigitCh \cup {"_"}

lower_ch(c) ==
  IF c \in UpperCh THEN LowerSeq[CHOOSE i \in 1..26 : UpperSeq[i] = c] ELSE c
upper_ch(c) ==
  IF c \in LowerCh THEN UpperSeq[CHOOSE i \in 1..26 : LowerSeq[i] = c] ELSE c
lower(t) == [i \in 1..Len(t) |-> lower_ch(t[i])]
upper(t) == [i \in 1..Len(t) |-> upper_ch(t[i])]

DigitVal(c) == CHOOSE n \in 0..9 : <<"0","1","2","3","4","5","6","7","8","9">>[n + 1] = c

Min(S) == CHOOSE x \in S : \A y \in S : x <= y
Max2(a, b) == IF a >= b THEN a ELSE b
Min2(a, b) == IF a <= b THEN a ELSE b

\* sub occurs in t starting at position p
OccursAt(t, sub, p) ==
  /\ p >= 1
  /\ p + Len(sub) - 1 <= Len(t)
  /\ \A i \in 1..Len(sub) : t[p + i - 1] = sub[i]
\* Python's  sub in t
Contains(t, sub) == \E p \in 1..(Len(t) + 1) : OccursAt(t, sub, p)
\* t[p..q] as a sequence, empty when q < p
Slice(t, p, q) == IF q < p THEN <<>> ELSE SubSeq(t, p, q)
\* the end of the longest run of characters of class cls that starts at p
\* (p - 1 when t[p] is not in cls)
RECURSIVE RunEnd(_, _, _)
RunEnd(t, cls, p) ==
  IF p <= Len(t) /\ t[p] \in cls THEN RunEnd(t, cls, p + 1) ELSE p - 1

(* ------------------------------ state --------------------------------- *)
VARIABLES
  settings,          \* app.config.settings (the four settings the code reads)
  patterns,          \* OCRProcessor.patterns
  dosage_forms,      \* TextExtractor.dosage_forms
  countries,         \* TextExtractor.countries
  pc,                \* per invocation: position in extract_product_info
  image,             \* per invocation: the argument image
  processed,         \* per invocation: preprocess_image's raster (h, w)
  easyocr_results,   \* per invocation: reader.readtext's list of (text, confidence)
  tesseract_text,    \* per invocation: pytesseract.image_to_string's block
  text,              \* per invocation: extract_text's return value
  result,            \* per invocation: the returned record or the raised exception
  engine_failed,     \* per invocation: which engine call raised ("A", "B" or "none")
  REDIS_AVAILABLE,   \* main.py: whether the Redis probe at import succeeded
  handler,           \* the HTTP handler serving the request ("none" before it)
  files,             \* the uploaded files of the request
  hpc,               \* position in main.py: import, serving, in a handler, done
  file_idx,          \* index of the file the handler is at
  file_size,         \* process_image: file_size; process_bulk_images: len(contents)
  checked,           \* history: the checks the file at hand has passed so far
  bulk_results,      \* process_bulk_images: results
  bulk_errors,       \* process_bulk_images: errors
  core_calls,        \* history: the invocations of ocr_processor.extract_product_info
  response           \* the HTTP response of the request

ocr_vars == <<settings, patterns, dosage_forms, countries, pc, image, processed,
              easyocr_results, tesseract_text, text, result, engine_failed>>
http_vars == <<REDIS_AVAILABLE, handler, files, hpc, file_idx, file_size, checked,
               bulk_results, bulk_errors, core_calls, response>>
vars == <<ocr_vars, http_vars>>

self_vars == <<settings, patterns, dosage_forms, countries>>

MIN_CONFIDENCE == 50
MAX_IMAGE_SIZE == 4096
SUPPORTED_FORMATS == <<"image/jpeg", "image/png">>
MAX_UPLOAD_SIZE == 10 * 1024 * 1024

Settings ==
  [MIN_CONFIDENCE |-> MIN_CONFIDENCE, MAX_IMAGE_SIZE |-> MAX_IMAGE_SIZE,
   SUPPORTED_FORMATS |-> SUPPORTED_FORMATS, MAX_UPLOAD_SIZE |-> MAX_UPLOAD_SIZE]

Raised(exc) == [kind |-> "raised", exc |-> exc]

(* ------------------------- preprocess_image --------------------------- *)
IsPow2(n) == \E k \in 0..30 : n = 2^k

\* cvRound(side * scale) for scale = float(M) / float(long): round to nearest,
\* a tie goes to the even neighbour when the scale is an exact binary fraction;
\* when it is not, the product may land on either side of the tie.
RoundScaled(side, M, long) ==
  LET n == side * M
      q == n \div long
      r == n % long
  IN  IF 2 * r < long THEN {q}
      ELSE IF 2 * r > long THEN {q + 1}
      ELSE IF IsPow2(long) THEN {IF q % 2 = 0 THEN q ELSE q + 1}
      ELSE {q, q + 1}

\* cv2.resize(image, None, fx=scale, fy=scale): the set of possible outcomes
resize(img, M) ==
  LET long == Max2(img.h, img.w)
  IN  IF img.h = 0 \/ img.w = 0
      THEN {Raised("cv2.error")}
      ELSE { IF nh = 0 \/ nw = 0 THEN Raised("cv2.error")
                                 ELSE [kind |-> "image", h |-> nh, w |-> nw] :
               <<nh, nw>> \in RoundScaled(img.h, M, long) \X RoundScaled(img.w, M, long) }

\* cvtColor, fastNlMeansDenoising and adaptiveThreshold keep the size and
\* reject an empty matrix
binarize(img) ==
  IF img.h = 0 \/ img.w = 0 THEN Raised("cv2.error")
  ELSE [kind |-> "image", h |-> img.h, w |-> img.w]

\* the set of possible outcomes of preprocess_image(image)
preprocess_outcomes(img, M) ==
  IF img = None THEN {Raised("AttributeError")}
  ELSE IF Max2(img.h, img.w) > M
       THEN { IF r.kind = "raised" THEN r ELSE binarize(r) : r \in resize(img, M) }
       ELSE {binarize(img)}

(* ---------------------------- extract_text ---------------------------- *)
\* kept_texts with the fragments taken highest confidence first
RECURSIVE by_confidence(_)
by_confidence(results) ==
  IF results = <<>> THEN <<>>
  ELSE LET i == Min({ j \in 1..Len(results) :
                       \A k \in 1..Len(results) : results[k].conf <= results[j].conf })
       IN  <<results[i]>> \o by_confidence(Slice(results, 1, i - 1) \o Slice(results, i + 1, Len(results)))
kept_texts_by_confidence(results, floor) ==
  LET sorted == by_confidence(results)
      keep(r) == r.conf > floor
      kept == SelectSeq(sorted, keep)
  IN  [i \in 1..Len(kept) |-> kept[i].text]

\* [result[1] for result in easyocr_results if result[2] > MIN_CONFIDENCE]
RECURSIVE kept_texts(_, _)
kept_texts(results, floor) ==
  IF results = <<>> THEN <<>>
  ELSE LET rest == kept_texts(Tail(results), floor)
       IN  IF Head(results).conf > floor THEN <<Head(results).text>> \o rest ELSE rest

\* sep.join(parts)
RECURSIVE join(_, _)
join(sep, parts) ==
  IF parts = <<>> THEN <<>>
  ELSE IF Len(parts) = 1 THEN parts[1]
  ELSE parts[1] \o sep \o join(sep, Tail(parts))

\* f"{combined_text} {tesseract_text}"
combine(results, tess, floor) ==
  join(<<" ">>, kept_texts(results, floor)) \o <<" ">> \o tess

(* ------------------- the pattern table and re.search ------------------ *)
\* A pattern  kw.*?(capture)  is its keyword and the shape of its capture:
\*   "token"  ([A-Z0-9-]+)        "digits"  (\d+)
\*   "date"   (\d{2}[-/]\d{2}[-/]\d{4})
Patterns ==
  [certificate_number |-> [kw |-> <<"c","e","r","t","i","f","i","c","a","t","e">>, cap |-> "token"],
   batch_number       |-> [kw |-> <<"b","a","t","c","h">>, cap |-> "token"],
   expiry_date        |-> [kw |-> <<"e","x","p">>, cap |-> "date"],
   pack_size          |-> [kw |-> <<"p","a","c","k">>, cap |-> "digits"]]

PatternFields == {"certificate_number", "batch_number", "expiry_date", "pack_size"}

\* [A-Z0-9-] under re.IGNORECASE
TokenCh == LetterCh \cup DigitCh \cup {"-"}

DateShapeAt(t, q) ==
  /\ q + 9 <= Len(t)
  /\ \A i \in {0, 1, 3, 4, 6, 7, 8, 9} : t[q + i] \in DigitCh
  /\ t[q + 2] \in {"-", "/"}
  /\ t[q + 5] \in {"-", "/"}

\* the capture group can start at q
CapStartsAt(t, cap, q) ==
  /\ q <= Len(t)
  /\ CASE cap = "token"  -> t[q] \in TokenCh
       [] cap = "digits" -> t[q] \in DigitCh
       [] cap = "date"   -> DateShapeAt(t, q)

\* the text of the capture group that starts at q (greedy)
CapText(t, cap, q) ==
  CASE cap = "token"  -> Slice(t, q, RunEnd(t, TokenCh, q))
    [] cap = "digits" -> Slice(t, q, RunEnd(t, DigitCh, q))
    [] cap = "date"   -> Slice(t, q, q + 9)

\* positions where the lazy  .*?  can hand over to the capture group, for a
\* match that starts at p:  .  does not match a newline
CapStarts(t, pat, p) ==
  { q \in (p + Len(pat.kw))..Len(t) :
      /\ CapStartsAt(t, pat.cap, q)
      /\ \A j \in (p + Len(pat.kw))..(q - 1) : t[j] # "\n" }

\* match = re.search(pattern, text, re.IGNORECASE); match.group(1) if match else None
re_search(pat, t) ==
  LET tl == lower(t)
      starts == { p \in 1..Len(t) : OccursAt(tl, pat.kw, p) /\ CapStarts(t, pat, p) # {} }
  IN  IF starts = {} THEN None
      ELSE LET p == Min(starts) IN Str(CapText(t, pat.cap, Min(CapStarts(t, pat, p))))

(* --------------------- datetime.strptime(s, '%d/%m/%Y') --------------- *)
Num(s) == IF Len(s) = 2 THEN 10 * DigitVal(s[1]) + DigitVal(s[2])
          ELSE 1000 * DigitVal(s[1]) + 100 * DigitVal(s[2]) + 10 * DigitVal(s[3]) + DigitVal(s[4])

IsLeap(y) == (y % 4 = 0 /\ y % 100 # 0) \/ y % 400 = 0

DaysInMonth(y, m) ==
  IF m = 2 THEN (IF IsLeap(y) THEN 29 ELSE 28)
  ELSE IF m \in {4, 6, 9, 11} THEN 30 ELSE 31

DigitChar(n) == <<"0","1","2","3","4","5","6","7","8","9">>[n + 1]

\* datetime.date(y, m, d); its value is written as the date's ISO form
Date(y, m, d) ==
  [kind |-> "date",
   val  |-> <<DigitChar(y \div 1000), DigitChar((y \div 100) % 10),
              DigitChar((y \div 10) % 10), DigitChar(y % 10), "-",
              DigitChar(m \div 10), DigitChar(m % 10), "-",
              DigitChar(d \div 10), DigitChar(d % 10)>>]

\* s is a capture of the expiry pattern (two digits, separator, two digits,
\* separator, four digits); the result is the date, or ValueError raised
strptime(s) ==
  LET d == Num(Slice(s, 1, 2))
      m == Num(Slice(s, 4, 5))
      y == Num(Slice(s, 7, 10))
  IN  IF s[3] = "/" /\ s[6] = "/" /\ y >= 1 /\ m \in 1..12 /\ d >= 1 /\ d <= DaysInMonth(y, m)
      THEN Date(y, m, d)
      ELSE Raised("ValueError")

(* --------------------------- TextExtractor ---------------------------- *)
DosageForms ==
  << <<"t","a","b","l","e","t">>, <<"c","a","p","s","u","l","e">>, <<"s","y","r","u","p">>,
     <<"i","n","j","e","c","t","i","o","n">>, <<"c","r","e","a","m">>,
     <<"o","i","n","t","m","e","n","t">> >>

Countries ==
  << <<"U","S","A">>, <<"U","K">>, <<"I","n","d","i","a">>, <<"G","e","r","m","a","n","y">>,
     <<"S","w","i","t","z","e","r","l","a","n","d">>, <<"F","r","a","n","c","e">> >>

GlyphCh == {"REG", "TM"}

\* ([A-Z][A-Za-z]+(?:\s+[A-Z][A-Za-z]+)*)[glyph] matched from p: the words end
\* at the first character that is neither a letter nor white space
BrandEnd(t, p) == RunEnd(t, LetterCh \cup SpaceCh, p)
BrandMatchesAt(t, p) ==
  LET e == BrandEnd(t, p)
  IN  /\ t[p] \in UpperCh
      /\ e + 1 <= Len(t)
      /\ t[e + 1] \in GlyphCh
      /\ t[e] \in LetterCh
      /\ \A i \in p..e :
           (t[i] \in LetterCh /\ (i = p \/ t[i - 1] \in SpaceCh)) =>
             (t[i] \in UpperCh /\ i + 1 <= e /\ t[i + 1] \in LetterCh)

extract_brand_name(t) ==
  LET starts == { p \in 1..Len(t) : BrandMatchesAt(t, p) }
  IN  IF starts = {} THEN None
      ELSE LET p == Min(starts) IN Str(Slice(t, p, BrandEnd(t, p)))

\* \(([\w\s-]+)\)
GenericCh == WordCh \cup SpaceCh \cup {"-"}
GenericMatchesAt(t, p) ==
  LET e == RunEnd(t, GenericCh, p + 1)
  IN  t[p] = "(" /\ e >= p + 1 /\ e + 1 <= Len(t) /\ t[e + 1] = ")"

extract_generic_name(t) ==
  LET starts == { p \in 1..Len(t) : GenericMatchesAt(t, p) }
  IN  IF starts = {} THEN None
      ELSE LET p == Min(starts) IN Str(Slice(t, p + 1, RunEnd(t, GenericCh, p + 1)))

\* for form in self.dosage_forms: if form in text_lower: return form
extract_dosage_form(t) ==
  LET tl == lower(t)
      hits == { i \in 1..Len(dosage_forms) : Contains(tl, dosage_forms[i]) }
  IN  IF hits = {} THEN None ELSE Str(dosage_forms[Min(hits)])

MADE_IN == <<"M","A","D","E"," ","I","N"," ">>
MANUFACTURED_IN == <<"M","A","N","U","F","A","C","T","U","R","E","D"," ","I","N"," ">>

\* for country in self.countries: if f"MADE IN {country}" in text_upper or ...
extract_manufacturer_country(t) ==
  LET tu == upper(t)
      hits == { i \in 1..Len(countries) :
                  \/ Contains(tu, MADE_IN \o countries[i])
                  \/ Contains(tu, MANUFACTURED_IN \o countries[i]) }
  IN  IF hits = {} THEN None ELSE Str(countries[Min(hits)])

\* (?:mg|ml|g|mcg) at u: the position of its last character, 0 when none fits
UnitEnd(t, u) ==
  IF OccursAt(t, <<"m","g">>, u) THEN u + 1
  ELSE IF OccursAt(t, <<"m","l">>, u) THEN u + 1
  ELSE IF OccursAt(t, <<"g">>, u) THEN u
  ELSE IF OccursAt(t, <<"m","c","g">>, u) THEN u + 2
  ELSE 0

\* \d+(?:\.\d+)?\s*(?:mg|ml|g|mcg) at p: the position of its last character,
\* 0 when it does not match there
NumUnitEnd(t, p) ==
  IF ~(p >= 1 /\ p <= Len(t) /\ t[p] \in DigitCh) THEN 0
  ELSE LET d == RunEnd(t, DigitCh, p)
           f == IF d + 2 <= Len(t) /\ t[d + 1] = "." /\ t[d + 2] \in DigitCh
                THEN RunEnd(t, DigitCh, d + 2) ELSE d
           s == RunEnd(t, SpaceCh, f + 1)
       IN  UnitEnd(t, s + 1)

\* the whole strength pattern at p: number and unit, an optional "/", an
\* optional second number and unit
StrengthEnd(t, p) ==
  LET e1 == NumUnitEnd(t, p)
      e2 == IF e1 + 1 <= Len(t) /\ t[e1 + 1] = "/" THEN e1 + 1 ELSE e1
      e3 == NumUnitEnd(t, e2 + 1)
  IN  IF e1 = 0 THEN 0 ELSE IF e3 # 0 THEN e3 ELSE e2

extract_strength(t) ==
  LET starts == { p \in 1..Len(t) : NumUnitEnd(t, p) # 0 }
  IN  IF starts = {} THEN None
      ELSE LET p == Min(starts) IN Str(Slice(t, p, StrengthEnd(t, p)))

\* the end of the longest run of [^.] that starts at p
RECURSIVE NotDotEnd(_, _)
NotDotEnd(t, p) ==
  IF p <= Len(t) /\ t[p] # "." THEN NotDotEnd(t, p + 1) ELSE p - 1

\* :?\s*([^.]+) from position k (right after a label): where the capture
\* starts, 0 when the rest cannot match.  The greedy ":" and white space are
\* given back one character at a time when nothing but "." or the end follows.
LabelCapStart(t, k) ==
  LET c == IF k <= Len(t) /\ t[k] = ":" THEN k + 1 ELSE k
      s == RunEnd(t, SpaceCh, c) + 1
  IN  IF s <= Len(t) /\ t[s] # "." THEN s
      ELSE IF s > c THEN s - 1
      ELSE IF c > k THEN k
      ELSE 0

\* label:?\s*([^.]+) under re.IGNORECASE, for the labels kws
extract_labelled(t, kws) ==
  LET tl == lower(t)
      kwAt(p) == { kw \in kws : OccursAt(tl, kw, p) }
      capOf(p) == LabelCapStart(t, p + Len(CHOOSE kw \in kwAt(p) : TRUE))
      starts == { p \in 1..Len(t) : kwAt(p) # {} /\ capOf(p) # 0 }
  IN  IF starts = {} THEN None
      ELSE LET x == capOf(Min(starts)) IN Str(Slice(t, x, NotDotEnd(t, x)))

extract_description(t) ==
  extract_labelled(t, { <<"d","e","s","c","r","i","p","t","i","o","n">> })

extract_precaution(t) ==
  extract_labelled(t, { <<"p","r","e","c","a","u","t","i","o","n">>,
                        <<"w","a","r","n","i","n","g">> })

(* ----------------------------- ProductData ---------------------------- *)
\* the declared fields of ProductData; every one is optional, id is an int,
\* created_at a datetime and the rest are str
ProductDataFields ==
  {"id", "created_at", "certificate_number", "brand_name", "generic_name", "dosage_form",
   "manufacturer", "strength", "batch_number", "expiry_date", "image_url"}
StrFields == ProductDataFields \ {"id", "created_at"}

\* ProductData(**data): a keyword that is not a declared field is ignored, a
\* declared field that is not given is None, and a value that is neither None
\* nor a str is rejected by a str field
ProductData(data) ==
  IF \E f \in StrFields \cap DOMAIN data : data[f].kind \notin {"none", "str"}
  THEN Raised("ValidationError")
  ELSE [kind |-> "record",
        fields |-> [f \in ProductDataFields |-> IF f \in DOMAIN data THEN data[f] ELSE None]]

(* ------------------------ extract_product_info ------------------------ *)
\* convert_expiry with the ValueError passed over: the raw capture stays
convert_expiry_keep_raw(v) ==
  IF v = None THEN None
  ELSE LET d == strptime(v.val) IN IF d.kind = "raised" THEN v ELSE d

\* lines 76-83: the expiry capture becomes a date, or None when it does not parse
convert_expiry(v) ==
  IF v = None THEN None
  ELSE LET d == strptime(v.val) IN IF d.kind = "raised" THEN None ELSE d

\* lines 68-99: the dictionary handed to ProductData
assemble(t) ==
  [certificate_number   |-> re_search(patterns.certificate_number, t),
   batch_number         |-> re_search(patterns.batch_number, t),
   expiry_date          |-> convert_expiry(re_search(patterns.expiry_date, t)),
   pack_size            |-> re_search(patterns.pack_size, t),
   brand_name           |-> extract_brand_name(t),
   generic_name         |-> extract_generic_name(t),
   dosage_form          |-> extract_dosage_form(t),
   manufacturer_country |-> extract_manufacturer_country(t),
   strength             |-> extract_strength(t),
   description          |-> extract_description(t),
   precaution           |-> extract_precaution(t),
   classification       |-> None,
   manufacturer         |-> None,
   self_administered    |-> None,
   display_name         |-> None,
   image_url            |-> None]

(* ------------------------------- inputs ------------------------------- *)
Image(h, w) == [kind |-> "image", h |-> h, w |-> w]
Frag(t, conf) == [text |-> t, conf |-> conf]

\* the images, Engine A fragment lists and Engine B blocks of the pipeline runs
CallImages ==
  {None, Image(2, 3), Image(2 * MAX_IMAGE_SIZE, MAX_IMAGE_SIZE + 1)}
EngineAOutputs ==
  { << Frag(<<"E","X","P">>, 90), Frag(<<"3","1","/","0","2","/","2","0","2","6">>, 30) >>,
    << Frag(<<"P","a","c","k">>, 50), Frag(<<"B","a","t","c","h">>, 51) >> }
EngineBOutputs ==
  { <<"1","2","/","0","8","/","2","0","2","6","\n">>, <<"x","9"," ","p","a","c","k"," ","1","0"," ","t","a","b","l","e","t","s">> }

\* the images of the preprocess_image runs: None, empty, small, and around
\* MAX_IMAGE_SIZE and its multiples
SampleDims ==
  (0..MaxSmallDim) \cup
  {MAX_IMAGE_SIZE - 1, MAX_IMAGE_SIZE, MAX_IMAGE_SIZE + 1, 2 * MAX_IMAGE_SIZE,
   2 * MAX_IMAGE_SIZE + 1, 6 * MAX_IMAGE_SIZE}
SampleImages == {None} \cup { Image(h, w) : h \in SampleDims, w \in SampleDims }

\* the Engine A lists and Engine B blocks of the extract_text runs
SampleFrags ==
  { Frag(t, conf) : t \in { <<"E","X","P">>, <<"A","B","-","1","2">> }, conf \in {30, 49, 50, 51, 90} }
SampleFragLists == UNION { [1..n -> SampleFrags] : n \in 0..MaxFrags }
SampleBlocks == { <<>>, <<"1","2","/","0","8","/","2","0","2","6","\n">> }

\* the merged texts of the extract_product_info runs: an empty Engine A part,
\* the space, and a block made of label segments with at most one expiry text
ExpirySegments ==
  { <<>>, <<"E","X","P"," ","1","2","/","0","8","/","2","0","2","6">>, <<"E","X","P"," ","A","B","C","D","E">>, <<"E","x","p",":"," ","1","2","-","0","8","-","2","0","2","6">>, <<"e","x","p"," ","3","1","/","0","2","/","2","0","2","6">>, <<"E","X","P"," ","2","9","/","0","2","/","2","0","2","4">> }
LabelsBeforeExpiry ==
  << <<"C","e","r","t","i","f","i","c","a","t","e"," ","A","B","-","1","2">>,
     <<"B","a","t","c","h",":"," ","x","9">>,
     <<"B","a","t","c","h">> >>
LabelsAfterExpiry ==
  << <<"P","a","c","k"," ","o","f"," ","1","0">>,
     <<"P","a","n","a","d","o","l","REG"," ","E","x","t","r","a">>,
     <<"(","P","a","r","a","c","e","t","a","m","o","l",")">>,
     <<"t","a","b","l","e","t","s">>,
     <<"M","a","d","e"," ","i","n"," ","U","K">>,
     <<"5","0","0","m","g">>,
     <<"D","e","s","c","r","i","p","t","i","o","n",":"," ","k","e","e","p"," ","d","r","y",".">>,
     <<"W","a","r","n","i","n","g",":"," ","a","v","o","i","d"," ","l","i","g","h","t",".">> >>
FieldSegments == LabelsBeforeExpiry \o LabelsAfterExpiry
RECURSIVE PickSegments(_, _, _)
PickSegments(sel, exp, i) ==
  IF i > Len(FieldSegments) THEN <<>>
  ELSE (IF i \in sel THEN <<FieldSegments[i]>> ELSE <<>>)
       \o (IF i = Len(LabelsBeforeExpiry) /\ exp # <<>> THEN <<exp>> ELSE <<>>)
       \o PickSegments(sel, exp, i + 1)
Selections ==
  { sel \in SUBSET (1..Len(FieldSegments)) :
      Cardinality(sel) <= MaxPicked \/ Cardinality(sel) >= Len(FieldSegments) - 1 }
SampleTexts ==
  { <<" ">> \o join(<<" ">>, PickSegments(sel, exp, 1)) :
      sel \in Selections, exp \in ExpirySegments }

(* ------------------------------ actions ------------------------------- *)
Undef == [kind |-> "undef"]

\* a caller invokes extract_product_info(img)
call(c, img) ==
  /\ pc[c] = "idle"
  /\ image' = [image EXCEPT ![c] = img]
  /\ pc' = [pc EXCEPT ![c] = "preprocess"]
  /\ UNCHANGED <<self_vars, http_vars, processed, easyocr_results, tesseract_text, text, result,
                 engine_failed>>

\* extract_text line 42: processed = self.preprocess_image(image)
preprocess_image(c) ==
  /\ pc[c] = "preprocess"
  /\ \E r \in preprocess_outcomes(image[c], settings.MAX_IMAGE_SIZE) :
       \/ /\ r.kind = "raised"
          /\ result' = [result EXCEPT ![c] = r]
          /\ pc' = [pc EXCEPT ![c] = "done"]
          /\ UNCHANGED processed
       \/ /\ r.kind = "image"
          /\ processed' = [processed EXCEPT ![c] = r]
          /\ pc' = [pc EXCEPT ![c] = "readtext"]
          /\ UNCHANGED result
  /\ UNCHANGED <<self_vars, http_vars, image, easyocr_results, tesseract_text, text, engine_failed>>

\* reader.readtext(processed, ...): Engine A returns its fragments or raises
readtext(c) ==
  /\ pc[c] = "readtext"
  /\ \/ \E out \in EngineAOutputs :
          /\ easyocr_results' = [easyocr_results EXCEPT ![c] = out]
          /\ pc' = [pc EXCEPT ![c] = "image_to_string"]
          /\ UNCHANGED <<result, engine_failed>>
     \/ /\ result' = [result EXCEPT ![c] = Raised("EasyOCRError")]
        /\ engine_failed' = [engine_failed EXCEPT ![c] = "A"]
        /\ pc' = [pc EXCEPT ![c] = "done"]
        /\ UNCHANGED easyocr_results
  /\ UNCHANGED <<self_vars, http_vars, image, processed, tesseract_text, text>>

\* image_to_string with Engine B's failure swallowed: the merge goes on with
\* Engine A's fragments and an empty block
image_to_string_fallback(c) ==
  /\ pc[c] = "image_to_string"
  /\ \/ \E out \in EngineBOutputs :
          /\ tesseract_text' = [tesseract_text EXCEPT ![c] = out]
          /\ UNCHANGED engine_failed
     \/ /\ tesseract_text' = [tesseract_text EXCEPT ![c] = <<>>]
        /\ engine_failed' = [engine_failed EXCEPT ![c] = "B"]
  /\ pc' = [pc EXCEPT ![c] = "combine"]
  /\ UNCHANGED <<self_vars, http_vars, image, processed, easyocr_results, text, result>>

\* pytesseract.image_to_string(processed, ...): Engine B returns its block or raises
image_to_string(c) ==
  /\ pc[c] = "image_to_string"
  /\ \/ \E out \in EngineBOutputs :
          /\ tesseract_text' = [tesseract_text EXCEPT ![c] = out]
          /\ pc' = [pc EXCEPT ![c] = "combine"]
          /\ UNCHANGED <<result, engine_failed>>
     \/ /\ result' = [result EXCEPT ![c] = Raised("TesseractError")]
        /\ engine_failed' = [engine_failed EXCEPT ![c] = "B"]
        /\ pc' = [pc EXCEPT ![c] = "done"]
        /\ UNCHANGED tesseract_text
  /\ UNCHANGED <<self_vars, http_vars, image, processed, easyocr_results, text>>

\* extract_text lines 59-64: filter, join and return the merged text
extract_text(c) ==
  /\ pc[c] = "combine"
  /\ text' = [text EXCEPT ![c] =
                combine(easyocr_results[c], tesseract_text[c], settings.MIN_CONFIDENCE)]
  /\ pc' = [pc EXCEPT ![c] = "assemble"]
  /\ UNCHANGED <<self_vars, http_vars, image, processed, easyocr_results, tesseract_text, result,
                 engine_failed>>

\* extract_product_info that consumes the vocabulary it scans (pop instead of
\* iteration)
extract_product_info_consuming(c) ==
  /\ pc[c] = "assemble"
  /\ result' = [result EXCEPT ![c] = ProductData(assemble(text[c]))]
  /\ pc' = [pc EXCEPT ![c] = "done"]
  /\ dosage_forms' = IF dosage_forms = <<>> THEN <<>> ELSE Tail(dosage_forms)
  /\ UNCHANGED <<http_vars, settings, patterns, countries, image, processed, easyocr_results,
                 tesseract_text, text, engine_failed>>

\* extract_product_info lines 68-101: scan, convert, extract and build the record
extract_product_info(c) ==
  /\ pc[c] = "assemble"
  /\ result' = [result EXCEPT ![c] = ProductData(assemble(text[c]))]
  /\ pc' = [pc EXCEPT ![c] = "done"]
  /\ UNCHANGED <<self_vars, http_vars, image, processed, easyocr_results, tesseract_text, text,
                 engine_failed>>

\* the invocation is over: its locals are dropped
return(c) ==
  /\ pc[c] = "done"
  /\ pc' = [pc EXCEPT ![c] = "idle"]
  /\ image' = [image EXCEPT ![c] = Undef]
  /\ processed' = [processed EXCEPT ![c] = Undef]
  /\ easyocr_results' = [easyocr_results EXCEPT ![c] = <<>>]
  /\ tesseract_text' = [tesseract_text EXCEPT ![c] = <<>>]
  /\ text' = [text EXCEPT ![c] = <<>>]
  /\ result' = [result EXCEPT ![c] = Undef]
  /\ engine_failed' = [engine_failed EXCEPT ![c] = "none"]
  /\ UNCHANGED <<self_vars, http_vars>>

(* ------------------------ main.py: HTTP handlers ---------------------- *)
chunk_size == 1024 * 1024

\* Python's  x in lst
InList(x, lst) == \E i \in 1..Len(lst) : lst[i] = x

\* an uploaded file: its declared content type, its size in bytes and what
\* cv2.imdecode makes of its bytes ("image", "null" for None, "raises")
UploadFile(ct, size, dec) == [content_type |-> ct, size |-> size, decodes |-> dec]
ContentTypes == { "image/jpeg", "image/png", "application/pdf" }
\* an empty upload makes imdecode raise or return None, depending on the build
FileBodies ==
  { <<0, "raises">>, <<0, "null">>,
    <<MAX_UPLOAD_SIZE, "image">>, <<MAX_UPLOAD_SIZE, "null">>,
    <<MAX_UPLOAD_SIZE + 1, "image">> }
UploadFiles == { UploadFile(ct, b[1], b[2]) : ct \in ContentTypes, b \in FileBodies }
FileLists == UNION { [1..n -> UploadFiles] : n \in 1..MaxFiles }

Response(code, detail) == [status |-> code, detail |-> detail]
Checks == { "content_type", "size", "decoded" }

\* main.py lines 26-27: Redis not probed yet, no request received
NoRequest ==
  /\ REDIS_AVAILABLE = FALSE
  /\ handler = "none"
  /\ files = <<>>
  /\ hpc = "import"
  /\ file_idx = 0
  /\ file_size = 0
  /\ checked = {}
  /\ bulk_results = <<>>
  /\ bulk_errors = <<>>
  /\ core_calls = <<>>
  /\ response = Undef

\* the Redis probe at import: ping answered or an exception was caught
connect_redis ==
  /\ hpc = "import"
  /\ \E ping \in BOOLEAN : REDIS_AVAILABLE' = ping
  /\ hpc' = "serving"
  /\ UNCHANGED <<ocr_vars, handler, files, file_idx, file_size, checked, bulk_results, bulk_errors,
                 core_calls, response>>

\* POST /process-image/ with one file, by an authenticated user
post_process_image(file) ==
  /\ hpc = "serving"
  /\ handler' = "process_image"
  /\ files' = <<file>>
  /\ file_idx' = 1
  /\ hpc' = "pi_content_type"
  /\ UNCHANGED <<ocr_vars, REDIS_AVAILABLE, file_size, checked, bulk_results, bulk_errors,
                 core_calls, response>>

\* process_image, lines 156-162
pi_content_type ==
  /\ hpc = "pi_content_type"
  /\ IF ~InList(files[file_idx].content_type, settings.SUPPORTED_FORMATS)
       THEN /\ response' = Response(400, "Unsupported file format")
            /\ hpc' = "done"
            /\ UNCHANGED <<checked, file_size>>
       ELSE /\ checked' = checked \cup {"content_type"}
            /\ file_size' = 0
            /\ hpc' = "pi_read"
            /\ UNCHANGED response
  /\ UNCHANGED <<ocr_vars, REDIS_AVAILABLE, handler, files, file_idx, bulk_results, bulk_errors,
                 core_calls>>

\* process_image, lines 166-176: one turn of the chunk loop
pi_read ==
  /\ hpc = "pi_read"
  /\ LET chunk == Min2(chunk_size, files[file_idx].size - file_size)
     IN  IF chunk = 0
           THEN /\ checked' = checked \cup {"size"}
                /\ hpc' = "pi_cache"
                /\ UNCHANGED <<file_size, response>>
           ELSE /\ file_size' = file_size + chunk
                /\ IF file_size + chunk > settings.MAX_UPLOAD_SIZE
                     THEN /\ response' = Response(400, "File too large")
                          /\ hpc' = "done"
                     ELSE UNCHANGED <<response, hpc>>
                /\ UNCHANGED checked
  /\ UNCHANGED <<ocr_vars, REDIS_AVAILABLE, handler, files, file_idx, bulk_results, bulk_errors,
                 core_calls>>

\* process_image, lines 179-183: contents is a bytearray, hash() of it raises
\* TypeError, which line 213 turns into a 500
pi_cache ==
  /\ hpc = "pi_cache"
  /\ IF REDIS_AVAILABLE
       THEN /\ response' = Response(500, "unhashable type: 'bytearray'")
            /\ hpc' = "done"
       ELSE /\ hpc' = "pi_decode"
            /\ UNCHANGED response
  /\ UNCHANGED <<ocr_vars, REDIS_AVAILABLE, handler, files, file_idx, file_size, checked,
                 bulk_results, bulk_errors, core_calls>>

\* process_image, lines 185-190
pi_decode ==
  /\ hpc = "pi_decode"
  /\ CASE files[file_idx].decodes = "raises" ->
            /\ response' = Response(500, "Error processing image")
            /\ hpc' = "done"
            /\ UNCHANGED checked
       [] files[file_idx].decodes = "null" ->
            /\ response' = Response(400, "Invalid image format or corrupted file")
            /\ hpc' = "done"
            /\ UNCHANGED checked
       [] OTHER ->
            /\ checked' = checked \cup {"decoded"}
            /\ hpc' = "pi_extract"
            /\ UNCHANGED response
  /\ UNCHANGED <<ocr_vars, REDIS_AVAILABLE, handler, files, file_idx, file_size, bulk_results,
                 bulk_errors, core_calls>>

\* process_image, lines 192-215: the core is invoked; the product is saved
\* and returned, or the core or the database raises
pi_extract ==
  /\ hpc = "pi_extract"
  /\ core_calls' = Append(core_calls, [file |-> file_idx, checked |-> checked])
  /\ \E saved \in BOOLEAN :
       response' = IF saved THEN Response(200, "product")
                   ELSE Response(500, "Error processing image")
  /\ hpc' = "done"
  /\ UNCHANGED <<ocr_vars, REDIS_AVAILABLE, handler, files, file_idx, file_size, checked,
                 bulk_results, bulk_errors>>

\* POST /process-bulk/ with a list of files, by an authenticated user
post_process_bulk_images(fs) ==
  /\ hpc = "serving"
  /\ handler' = "process_bulk_images"
  /\ files' = fs
  /\ file_idx' = 1
  /\ hpc' = "pb_for"
  /\ UNCHANGED <<ocr_vars, REDIS_AVAILABLE, file_size, checked, bulk_results, bulk_errors,
                 core_calls, response>>

\* process_bulk_images, line 234 and lines 286-293: the next file, or the
\* response once the list is exhausted
pb_for ==
  /\ hpc = "pb_for"
  /\ IF file_idx <= Len(files)
       THEN /\ hpc' = "pb_content_type"
            /\ checked' = {}
            /\ UNCHANGED response
       ELSE /\ response' = IF bulk_results = <<>>
                           THEN Response(400, "No images were successfully processed")
                           ELSE Response(200, "products")
            /\ hpc' = "done"
            /\ UNCHANGED checked
  /\ UNCHANGED <<ocr_vars, REDIS_AVAILABLE, handler, files, file_idx, file_size, bulk_results,
                 bulk_errors, core_calls>>

\* continue: on to the next file of the list
continue == file_idx' = file_idx + 1 /\ hpc' = "pb_for"
Skipped(why) == Append(bulk_errors, [file |-> file_idx, why |-> why])

\* process_bulk_images, lines 236-239
pb_content_type ==
  /\ hpc = "pb_content_type"
  /\ IF ~InList(files[file_idx].content_type, settings.SUPPORTED_FORMATS)
       THEN /\ bulk_errors' = Skipped("Unsupported format")
            /\ continue
            /\ UNCHANGED checked
       ELSE /\ checked' = checked \cup {"content_type"}
            /\ hpc' = "pb_read"
            /\ UNCHANGED <<bulk_errors, file_idx>>
  /\ UNCHANGED <<ocr_vars, REDIS_AVAILABLE, handler, files, file_size, bulk_results,
                 core_calls, response>>

\* lines 241-245 without the comparison of line 242
pb_read_unchecked ==
  /\ hpc = "pb_read"
  /\ file_size' = files[file_idx].size
  /\ hpc' = "pb_cache"
  /\ UNCHANGED <<ocr_vars, REDIS_AVAILABLE, handler, files, file_idx, checked, bulk_results,
                 bulk_errors, core_calls, response>>

\* process_bulk_images, lines 241-245
pb_read ==
  /\ hpc = "pb_read"
  /\ file_size' = files[file_idx].size
  /\ IF files[file_idx].size > settings.MAX_UPLOAD_SIZE
       THEN /\ bulk_errors' = Skipped("File too large")
            /\ continue
            /\ UNCHANGED checked
       ELSE /\ checked' = checked \cup {"size"}
            /\ hpc' = "pb_cache"
            /\ UNCHANGED <<bulk_errors, file_idx>>
  /\ UNCHANGED <<ocr_vars, REDIS_AVAILABLE, handler, files, bulk_results, core_calls, response>>

\* process_bulk_images, lines 248-253: contents is bytes and can be hashed; a
\* cached result exists only for bytes that were decoded and processed before
pb_cache ==
  /\ hpc = "pb_cache"
  /\ \E cached_result \in { FALSE } \cup
                          { REDIS_AVAILABLE /\ files[file_idx].decodes = "image" } :
       IF cached_result
         THEN /\ bulk_results' = Append(bulk_results, [file |-> file_idx, from |-> "cache"])
              /\ continue
         ELSE /\ hpc' = "pb_decode"
              /\ UNCHANGED <<bulk_results, file_idx>>
  /\ UNCHANGED <<ocr_vars, REDIS_AVAILABLE, handler, files, file_size, checked, bulk_errors,
                 core_calls, response>>

\* process_bulk_images, lines 255-258 and 277-284
pb_decode ==
  /\ hpc = "pb_decode"
  /\ CASE files[file_idx].decodes = "raises" ->
            /\ bulk_errors' = Skipped("exception")
            /\ continue
            /\ UNCHANGED checked
       [] files[file_idx].decodes = "null" ->
            /\ bulk_errors' = Skipped("Invalid image format")
            /\ continue
            /\ UNCHANGED checked
       [] OTHER ->
            /\ checked' = checked \cup {"decoded"}
            /\ hpc' = "pb_extract"
            /\ UNCHANGED <<bulk_errors, file_idx>>
  /\ UNCHANGED <<ocr_vars, REDIS_AVAILABLE, handler, files, file_size, bulk_results,
                 core_calls, response>>

\* process_bulk_images, lines 259-276 and 281-284: the core is invoked; the
\* product is saved and appended, or the core or the database raises
pb_extract ==
  /\ hpc = "pb_extract"
  /\ core_calls' = Append(core_calls, [file |-> file_idx, checked |-> checked])
  /\ \E saved \in BOOLEAN :
       IF saved
         THEN /\ bulk_results' = Append(bulk_results, [file |-> file_idx, from |-> "core"])
              /\ UNCHANGED bulk_errors
         ELSE /\ bulk_errors' = Skipped("exception")
              /\ UNCHANGED bulk_results
  /\ continue
  /\ UNCHANGED <<ocr_vars, REDIS_AVAILABLE, handler, files, file_size, checked, response>>

(* --------------------------- specifications --------------------------- *)
\* OCRProcessor() and TextExtractor() constructed, settings loaded, no invocation yet
InitSelf ==
  /\ settings = Settings
  /\ patterns = Patterns
  /\ dosage_forms = DosageForms
  /\ countries = Countries

Idle ==
  /\ pc = [c \in Calls |-> "idle"]
  /\ image = [c \in Calls |-> Undef]
  /\ processed = [c \in Calls |-> Undef]
  /\ easyocr_results = [c \in Calls |-> <<>>]
  /\ tesseract_text = [c \in Calls |-> <<>>]
  /\ text = [c \in Calls |-> <<>>]
  /\ result = [c \in Calls |-> Undef]
  /\ engine_failed = [c \in Calls |-> "none"]
  /\ NoRequest

Init == InitSelf /\ Idle

Next ==
  \E c \in Calls :
    \/ \E img \in CallImages : call(c, img)
    \/ preprocess_image(c)
    \/ readtext(c)
    \/ image_to_string(c)
    \/ extract_text(c)
    \/ extract_product_info(c)
    \/ return(c)

Spec == Init /\ [][Next]_vars

\* slot 1 stands at position at with the given locals, the other slots are idle
At(at, img, frags, block, merged) ==
  /\ pc = [c \in Calls |-> IF c = 1 THEN at ELSE "idle"]
  /\ image = [c \in Calls |-> IF c = 1 THEN img ELSE Undef]
  /\ processed = [c \in Calls |-> Undef]
  /\ easyocr_results = [c \in Calls |-> IF c = 1 THEN frags ELSE <<>>]
  /\ tesseract_text = [c \in Calls |-> IF c = 1 THEN block ELSE <<>>]
  /\ text = [c \in Calls |-> IF c = 1 THEN merged ELSE <<>>]
  /\ result = [c \in Calls |-> Undef]
  /\ engine_failed = [c \in Calls |-> "none"]
  /\ NoRequest

\* preprocess_image on every sample image
InitPre == InitSelf /\ \E img \in SampleImages : At("preprocess", img, <<>>, <<>>, <<>>)
NextPre == preprocess_image(1)
SpecPre == InitPre /\ [][NextPre]_vars

\* the merge of extract_text on every sample engine output
InitText ==
  InitSelf /\ \E frags \in SampleFragLists, block \in SampleBlocks :
                At("combine", Undef, frags, block, <<>>)
NextText == extract_text(1)
SpecText == InitText /\ [][NextText]_vars

\* the field extraction of extract_product_info on every sample merged text
InitInfo == InitSelf /\ \E merged \in SampleTexts : At("assemble", Undef, <<>>, <<>>, merged)
NextInfo == extract_product_info(1)
SpecInfo == InitInfo /\ [][NextInfo]_vars

\* the two upload handlers of main.py serving one request
InitHttp == InitSelf /\ Idle
NextHttp ==
  \/ connect_redis
  \/ \E file \in UploadFiles : post_process_image(file)
  \/ pi_content_type
  \/ pi_read
  \/ pi_cache
  \/ pi_decode
  \/ pi_extract
  \/ \E fs \in FileLists : post_process_bulk_images(fs)
  \/ pb_for
  \/ pb_content_type
  \/ pb_read
  \/ pb_cache
  \/ pb_decode
  \/ pb_extract
SpecHttp == InitHttp /\ [][NextHttp]_vars

(* ------------------------------- claims ------------------------------- *)
\* the characters the fragments S of r take in the merged text, one
\* separator each
RECURSIVE WidthSum(_, _)
WidthSum(r, S) ==
  IF S = {} THEN 0
  ELSE LET j == CHOOSE j \in S : TRUE IN Len(r[j].text) + 1 + WidthSum(r, S \ {j})

\* extract_text has returned in slot 1
Merged == pc[1] = "assemble"

\* C1: an Engine A fragment contributes its text to the merged text exactly
\* when its confidence is at least the floor (a fragment at the floor is kept):
\* the merged text is the texts of the fragments with confidence >= floor,
\* joined by spaces, then a space and Engine B's block.
C1_FloorInclusive ==
  Merged =>
    LET r == easyocr_results[1]
        atLeast(x) == x.conf >= settings.MIN_CONFIDENCE
        kept == SelectSeq(r, atLeast)
    IN  text[1] = join(<<" ">>, [i \in 1..Len(kept) |-> kept[i].text])
                    \o <<" ">> \o tesseract_text[1]

\* the fragments extract_text keeps, by position in Engine A's list
Surviving(r) == { i \in 1..Len(r) : r[i].conf > settings.MIN_CONFIDENCE }
\* where the text of surviving fragment i starts in the merged text
StartOf(r, i) == 1 + WidthSum(r, { j \in Surviving(r) : j < i })

\* C2: the merged text is the surviving Engine A texts in detection order,
\* each followed by exactly one space, and then Engine B's whole block (a lone
\* space and the block when nothing survives).
C2_MergeLayout ==
  Merged =>
    LET r == easyocr_results[1]
        b == tesseract_text[1]
        t == text[1]
    IN  /\ \A i \in Surviving(r) :
             /\ Slice(t, StartOf(r, i), StartOf(r, i) + Len(r[i].text) - 1) = r[i].text
             /\ t[StartOf(r, i) + Len(r[i].text)] = " "
        /\ Len(t) = (IF Surviving(r) = {} THEN 1 ELSE WidthSum(r, Surviving(r))) + Len(b)
        /\ Slice(t, Len(t) - Len(b) + 1, Len(t)) = b
        /\ t[Len(t) - Len(b)] = " "

\* two different fragments survive, the first with the lower confidence, and
\* Engine B's block is not empty
C2_Witness ==
  /\ Merged
  /\ Len(easyocr_results[1]) = 2
  /\ Surviving(easyocr_results[1]) = {1, 2}
  /\ easyocr_results[1][1].conf < easyocr_results[1][2].conf
  /\ easyocr_results[1][1].text # easyocr_results[1][2].text
  /\ tesseract_text[1] # <<>>

\* extract_product_info has finished in slot 1 on the merged text text[1]
Assembled == pc[1] = "done" /\ text[1] # <<>>

\* the capture of the expiry pattern in t, and what it parses to
ExpiryCapture(t) == re_search(Patterns.expiry_date, t)
ExpiryParses(t) == ExpiryCapture(t) # None /\ strptime(ExpiryCapture(t).val).kind = "date"

\* C3: when the merged text holds "exp" followed by a valid DD/MM/YYYY date,
\* extract_product_info returns a record whose expiry_date is that date
\* ("EXP 12/08/2026" gives 2026-08-12).
C3_ValidExpiryReturned ==
  (Assembled /\ ExpiryParses(text[1])) =>
    /\ result[1].kind = "record"
    /\ result[1].fields.expiry_date = strptime(ExpiryCapture(text[1]).val)
    /\ (text[1] = <<" ","E","X","P"," ","1","2","/","0","8","/","2","0","2","6">>) =>
         result[1].fields.expiry_date = [kind |-> "date", val |-> <<"2","0","2","6","-","0","8","-","1","2">>]

\* what the scan of field f finds in t, by the field's own pattern or extractor
OwnScan(f, t) ==
  CASE f = "certificate_number"   -> re_search(Patterns.certificate_number, t)
    [] f = "batch_number"         -> re_search(Patterns.batch_number, t)
    [] f = "pack_size"            -> re_search(Patterns.pack_size, t)
    [] f = "expiry_date"          ->
         IF ExpiryParses(t) THEN strptime(ExpiryCapture(t).val) ELSE None
    [] f = "brand_name"           -> extract_brand_name(t)
    [] f = "generic_name"         -> extract_generic_name(t)
    [] f = "dosage_form"          -> extract_dosage_form(t)
    [] f = "manufacturer_country" -> extract_manufacturer_country(t)
    [] f = "strength"             -> extract_strength(t)
    [] f = "description"          -> extract_description(t)
    [] f = "precaution"           -> extract_precaution(t)
    [] OTHER                      -> None

ScannedFields ==
  {"certificate_number", "batch_number", "expiry_date", "pack_size", "brand_name",
   "generic_name", "dosage_form", "manufacturer_country", "strength", "description",
   "precaution"}

\* t with its expiry text (and the space before it) taken out
StripExpiry(t) ==
  LET occ == { <<seg, p>> \in (ExpirySegments \ {<<>>}) \X (2..Len(t)) : OccursAt(t, seg, p) }
  IN  IF occ = {} THEN t
      ELSE LET o == CHOOSE o \in occ : TRUE
           IN  Slice(t, 1, o[2] - 2) \o Slice(t, o[2] + Len(o[1]), Len(t))

\* C4 (as stated): when the expiry pattern does not match or its capture does
\* not parse, no error is raised, expiry_date is absent and the other fields
\* of the record are what they would be for the text without the expiry text.
C4_OtherFieldsAsWithoutExpiryText ==
  (Assembled /\ ~ExpiryParses(text[1])) =>
    /\ result[1].kind = "record"
    /\ result[1].fields.expiry_date = None
    /\ \A f \in ProductDataFields \ {"expiry_date"} :
         result[1].fields[f] = OwnScan(f, StripExpiry(text[1]))

\* C4 (amended): when the expiry pattern does not match or its capture does
\* not parse, no error is raised, expiry_date is absent and every other field
\* of the record is what its own scan of the same merged text gives.
C4_ExpiryFailureSilent ==
  (Assembled /\ ~ExpiryParses(text[1])) =>
    /\ result[1].kind = "record"
    /\ result[1].fields.expiry_date = None
    /\ \A f \in ProductDataFields \ {"expiry_date"} :
         result[1].fields[f] = OwnScan(f, text[1])

\* a dash-separated capture was found, failed to parse and a record came back
C4_Witness ==
  /\ Assembled
  /\ ExpiryCapture(text[1]) # None
  /\ ExpiryCapture(text[1]).val[3] = "-"
  /\ result[1].kind = "record"
  /\ result[1].fields.batch_number # None

\* C5: extract_product_info returns a record, without raising, for every
\* merged text; when no field matches, every field of the record is absent.
C5_AlwaysReturnsRecord ==
  Assembled =>
    /\ result[1].kind = "record"
    /\ (\A f \in ScannedFields : OwnScan(f, text[1]) = None) =>
         \A f \in ProductDataFields : result[1].fields[f] = None

\* C6: a returned record carries every scanned field under its name: a
\* value found in the merged text is in the record, so that a field is absent
\* from the record only if nothing was found for it.
C6_EveryFoundFieldCarried ==
  (Assembled /\ result[1].kind = "record") =>
    \A f \in ScannedFields :
      OwnScan(f, text[1]) # None =>
        /\ f \in DOMAIN result[1].fields
        /\ result[1].fields[f] = OwnScan(f, text[1])

\* the exception an engine call raises, as it leaves the engine
EngineException(e) == IF e = "A" THEN "EasyOCRError" ELSE "TesseractError"

Preprocessed == pc[1] \in {"readtext", "done"} /\ image[1] # Undef

Degenerate(img) == img = None \/ (img.kind = "image" /\ (img.h = 0 \/ img.w = 0))

\* C8: given None or an image of zero area, preprocess_image fails with
\* InvalidImageError and returns no raster.
C8_DegenerateRejected ==
  (Preprocessed /\ Degenerate(image[1])) =>
    /\ pc[1] = "done"
    /\ result[1] = Raised("InvalidImageError")

\* C9: an image of h >= 1 by w >= 1 comes back h by w when max(h, w) <= M;
\* otherwise the raster's longer side is M and its shorter side is within one
\* pixel of min(h, w) * M / max(h, w).
C9_SizeRule ==
  (Preprocessed /\ image[1] # None /\ ~Degenerate(image[1])) =>
    LET h == image[1].h
        w == image[1].w
        M == MAX_IMAGE_SIZE
        long == Max2(h, w)
        short == Min2(h, w)
        out == processed[1]
    IN  /\ pc[1] = "readtext"
        /\ out.kind = "image"
        /\ IF long <= M
           THEN out.h = h /\ out.w = w
           ELSE /\ Max2(out.h, out.w) = M
                /\ Min2(out.h, out.w) * long - short * M <= long
                /\ short * M - Min2(out.h, out.w) * long <= long

\* both engines returned to invocation c and it has finished
BothReturned(c) == pc[c] = "done" /\ engine_failed[c] = "none" /\ processed[c] # Undef
SameInputs(c, d) ==
  /\ image[c] = image[d]
  /\ easyocr_results[c] = easyocr_results[d]
  /\ tesseract_text[c] = tesseract_text[d]

\* C10: two invocations on the same image with the same engine outputs end
\* the same way whatever ran before or between them, and no invocation changes
\* the patterns table, the vocabularies or the settings.
C10_Idempotent ==
  /\ \A c, d \in Calls :
       (BothReturned(c) /\ BothReturned(d) /\ SameInputs(c, d)) => result[c] = result[d]
  /\ settings = Settings
  /\ patterns = Patterns
  /\ dosage_forms = DosageForms
  /\ countries = Countries

\* two invocations on the same image and engine outputs have both returned a
\* record that names a dosage form
C10_Witness ==
  \E c, d \in Calls :
    /\ c # d
    /\ BothReturned(c) /\ BothReturned(d) /\ SameInputs(c, d)
    /\ result[c].kind = "record"
    /\ result[c].fields.dosage_form # None

(* ------------------- TextExtractor methods on their own --------------- *)
\* self.extractor.extract_manufacturer_country(text), processor.py line 90
call_extract_manufacturer_country(c) ==
  /\ pc[c] = "extract_manufacturer_country"
  /\ result' = [result EXCEPT ![c] = extract_manufacturer_country(text[c])]
  /\ pc' = [pc EXCEPT ![c] = "returned"]
  /\ UNCHANGED <<self_vars, http_vars, image, processed, easyocr_results, tesseract_text, text,
                 engine_failed>>

\* the texts of the country runs: a label and a vocabulary country, written
\* as on the pack, in capitals or in small letters, alone or inside a line;
\* and texts with no label or no vocabulary country
CountryLabels == { <<"M","a","d","e"," ","i","n"," ">>, <<"M","a","n","u","f","a","c","t","u","r","e","d"," ","i","n"," ">> }
CountryTexts ==
  { pre \o written \o post :
      pre \in { <<>>, <<"P","a","n","a","d","o","l"," ">> },
      post \in { <<>>, <<"."," ","K","e","e","p"," ","d","r","y">> },
      written \in UNION { { lab \o Countries[i], upper(lab \o Countries[i]),
                            lower(lab \o Countries[i]) } :
                          lab \in CountryLabels, i \in 1..Len(Countries) } }
  \cup { <<"I","n","d","i","a">>, <<"M","a","d","e"," ","i","n"," ","K","e","n","y","a">>, <<"P","r","o","d","u","c","t"," ","o","f"," ","U","K">>, <<" ">> }

InitCountry ==
  InitSelf /\ \E t \in CountryTexts : At("extract_manufacturer_country", Undef, <<>>, <<>>, t)
NextCountry == call_extract_manufacturer_country(1)
SpecCountry == InitCountry /\ [][NextCountry]_vars

\* the text names country C after a label, in any letter case
NamesCountry(t, C) ==
  \/ Contains(upper(t), MADE_IN \o upper(C))
  \/ Contains(upper(t), MANUFACTURED_IN \o upper(C))
Vocabulary == { Countries[i] : i \in 1..Len(Countries) }

\* C11: for every vocabulary country C, a text that names C after "MADE IN"
\* or "MANUFACTURED IN" in any letter case, and no other vocabulary country,
\* gives C; the result is absent only when no label names a vocabulary country.
C11_CountryFound ==
  (pc[1] = "returned") =>
    /\ \A C \in Vocabulary :
         (NamesCountry(text[1], C)
            /\ \A D \in Vocabulary \ {C} : ~NamesCountry(text[1], D))
         => result[1] = Str(C)
    /\ (result[1] = None) => \A C \in Vocabulary : ~NamesCountry(text[1], C)

\* self.extractor.extract_strength(text), processor.py line 91
call_extract_strength(c) ==
  /\ pc[c] = "extract_strength"
  /\ result' = [result EXCEPT ![c] = extract_strength(text[c])]
  /\ pc' = [pc EXCEPT ![c] = "returned"]
  /\ UNCHANGED <<self_vars, http_vars, image, processed, easyocr_results, tesseract_text, text,
                 engine_failed>>

\* the texts of the strength runs: a number, an optional space and a unit,
\* followed by nothing, a ratio, a "/" with no second quantity, or a second
\* quantity with no "/"; alone or after a pack count; and texts with no unit
StrengthUnits == { <<"m","g">>, <<"m","l">>, <<"g">>, <<"m","c","g">> }
StrengthTexts ==
  { pre \o num \o sp \o unit \o post :
      pre \in { <<>>, <<"1","2"," ","t","a","b","l","e","t","s"," ">> },
      num \in { <<"5">>, <<"2",".","5">> },
      sp \in { <<>>, <<" ">> },
      unit \in StrengthUnits,
      post \in { <<>>, <<"/">>, <<"/","d","a","y">>, <<"/","5","m","l">>, <<"/"," ","5","m","l">>, <<"1","0","m","l">>, <<" ","x"," ","3","0">> } }
  \cup { <<>>, <<"P","a","r","a","c","e","t","a","m","o","l">>, <<"5","0","0">> }

InitStrength ==
  InitSelf /\ \E t \in StrengthTexts : At("extract_strength", Undef, <<>>, <<>>, t)
NextStrength == call_extract_strength(1)
SpecStrength == InitStrength /\ [][NextStrength]_vars

\* the whole of v is one "number unit"
IsNumberUnit(v) == v # <<>> /\ NumUnitEnd(v, 1) = Len(v)
\* the whole of v is "number unit/number unit"
IsRatio(v) ==
  \E k \in 1..Len(v) :
    /\ v[k] = "/"
    /\ IsNumberUnit(Slice(v, 1, k - 1))
    /\ IsNumberUnit(Slice(v, k + 1, Len(v)))
\* the first position of t where a number is followed by a unit (0 if none)
FirstQuantity(t) ==
  LET starts == { p \in 1..Len(t) : NumUnitEnd(t, p) # 0 }
  IN  IF starts = {} THEN 0 ELSE Min(starts)

\* C12: a strength that is found starts at the first position of the text
\* where a number is followed by a unit, and is either one "number unit" or a
\* complete ratio "number unit/number unit"; it never ends with "/".
C12_StrengthShape ==
  (pc[1] = "returned" /\ result[1] # None) =>
    LET v == result[1].val
    IN  /\ FirstQuantity(text[1]) # 0
        /\ OccursAt(text[1], v, FirstQuantity(text[1]))
        /\ IsNumberUnit(v) \/ IsRatio(v)
        /\ v[Len(v)] # "/"

\* file i of the request fails one of the three checks
FailsCheck(i) ==
  \/ ~InList(files[i].content_type, SUPPORTED_FORMATS)
  \/ files[i].size > MAX_UPLOAD_SIZE
  \/ files[i].decodes # "image"
ReachedCore(i) == \E k \in 1..Len(core_calls) : core_calls[k].file = i
FromCache(i) == \E k \in 1..Len(bulk_results) : bulk_results[k] = [file |-> i, from |-> "cache"]
InErrors(i) == \E k \in 1..Len(bulk_errors) : bulk_errors[k].file = i

\* C13: in both handlers the core is invoked on a file only after its content
\* type was found supported, its size was found within MAX_UPLOAD_SIZE and
\* its bytes decoded to an image; a file failing a check never reaches the
\* core: the single upload is rejected, the bulk upload skips the file and
\* still processes the remaining files.
C13_CoreOnlyAfterChecks ==
  /\ \A k \in 1..Len(core_calls) :
       /\ core_calls[k].checked = Checks
       /\ ~FailsCheck(core_calls[k].file)
  /\ \A i \in 1..Len(files) : FailsCheck(i) => ~ReachedCore(i)
  /\ (hpc = "done" /\ handler = "process_image" /\ FailsCheck(1)) =>
       response.status # 200
  /\ (hpc = "done" /\ handler = "process_bulk_images") =>
       \A i \in 1..Len(files) :
         /\ FailsCheck(i) => InErrors(i)
         /\ ~FailsCheck(i) => ReachedCore(i) \/ FromCache(i)

\* a bulk upload is answered whose first file failed a check and whose
\* second file reached the core
C13_Witness ==
  /\ hpc = "done"
  /\ handler = "process_bulk_images"
  /\ Len(files) >= 2
  /\ FailsCheck(1)
  /\ InErrors(1)
  /\ ReachedCore(2)

====
